---- MODULE Spec2Model ----
(***************************************************************************)
(* Model of src/app.py: a Streamlit script that turns a URL into a QR-code *)
(* image, optionally shortening it first.  Streamlit re-executes the whole *)
(* script on every widget interaction; one action of this model is one     *)
(* such interaction followed by the complete script run it triggers.       *)
(***************************************************************************)
EXTENDS Integers, Sequences, FiniteSets, TLC

VARIABLES
    session_state,      \* st.session_state restricted to the keys the script writes
    url_input,          \* widget "url_input"
    qr_color,           \* widget "qr_color" (the selected label)
    use_shortener,      \* widget "use_shortener"
    shortener_service,  \* widget "shortener_service"
    url_qr_size,        \* widget "url_qr_size" (the size slider)
    clicked,            \* what st.button returned in the last script run
    trace,              \* what the last script run did and rendered, in order
    gen,                \* history: the shortening facts of the run that last wrote the cache
    prior_keys,         \* history: the keys the session state held when the last run began
    repeated            \* history: the last run repeated the submit before it, same inputs and answer

vars == <<session_state, url_input, qr_color, use_shortener, shortener_service,
          url_qr_size, clicked, trace, gen, prior_keys, repeated>>

-----------------------------------------------------------------------------
(* Bounds of the model.                                                    *)

\* The provider may answer with one of this many distinct short URLs.
NumShortUrls == 2

\* How many of the six colour presets the user picks from.
NumColors == 2

-----------------------------------------------------------------------------
(* Python strings.  A string is a sequence of characters `head` followed   *)
(* by `pad` copies of the character "x", so that URLs beyond the QR        *)
(* capacity (thousands of characters) stay small values.                   *)

Str(head, pad) == [head |-> head, pad |-> pad]

StrLen(s) == Len(s.head) + s.pad

CharAt(s, i) == IF i <= Len(s.head) THEN s.head[i] ELSE "x"

\* Python's None.
None == [none |-> TRUE]

\* Python truthiness of an Optional[str]: None and "" are falsy.
Truthy(s) == s # None /\ StrLen(s) > 0

\* str.startswith(prefix), prefix given as a plain sequence of characters.
StartsWith(s, prefix) ==
    /\ Len(prefix) <= StrLen(s)
    /\ \A i \in 1..Len(prefix) : CharAt(s, i) = prefix[i]

HTTP == <<"h", "t", "t", "p", ":", "/", "/">>
HTTPS == <<"h", "t", "t", "p", "s", ":", "/", "/">>

\* One entry of the last run's record: an operation and its argument.
Ev(op, arg) == [op |-> op, arg |-> arg]

Ops(t) == {t[i].op : i \in 1..Len(t)}

\* The argument of the first entry of t for operation op.
ArgOf(t, op) == t[CHOOSE i \in 1..Len(t) : t[i].op = op /\ \A j \in 1..(i - 1) : t[j].op # op].arg

-----------------------------------------------------------------------------
(* generate_qr_image: qrcode.QRCode(version=None, ERROR_CORRECT_M,         *)
(* box_size, border), add_data, make(fit=True), make_image.                *)

DefaultBoxSize == 10
DefaultBorder == 4

\* Data bits of a version 1..40 symbol at error-correction level M
\* (8 * data codewords), the table make(fit=True) searches.
BIT_LIMIT_M ==
    <<128, 224, 352, 512, 688, 864, 992, 1232, 1456, 1728,
      2032, 2320, 2672, 2920, 3320, 3624, 4056, 4504, 5016, 5352,
      5712, 6256, 6880, 7312, 8000, 8496, 9024, 9544, 10136, 10984,
      11640, 12328, 13048, 13800, 14496, 15312, 15936, 16816, 17728, 18672>>

\* Width of the character-count field of a byte-mode segment.
ByteLengthBits(version) == IF version < 10 THEN 8 ELSE 16

\* The three version ranges that share character-count widths.
ModeSizeClass(version) == IF version < 10 THEN 1 ELSE IF version < 27 THEN 2 ELSE 3

\* QRCode.best_fit: the smallest version from `start` whose capacity holds the
\* mode indicator, the count field and the data bytes; one past the last
\* version when none does.  It starts over when the version found has wider
\* count fields than the one assumed.
RECURSIVE best_fit(_, _)
best_fit(nbytes, start) ==
    LET needed == 4 + ByteLengthBits(start) + 8 * nbytes
        fits == {v \in start..Len(BIT_LIMIT_M) : BIT_LIMIT_M[v] >= needed}
        version == IF fits = {} THEN Len(BIT_LIMIT_M) + 1
                   ELSE CHOOSE v \in fits : \A o \in fits : v <= o
    IN  IF version = Len(BIT_LIMIT_M) + 1 THEN version
        ELSE IF ModeSizeClass(version) # ModeSizeClass(start)
             THEN best_fit(nbytes, version)
             ELSE version

\* Modules per side of a symbol of the given version.
ModulesCount(version) == 4 * version + 17

\* Variant of generate_qr_image: the raster leaves out the quiet zone.
generate_qr_image_no_border(data, fill_color, box_size, border) ==
    LET version == best_fit(StrLen(data), 1)
        side == ModulesCount(version) * box_size
    IN  IF version > Len(BIT_LIMIT_M)
        THEN [raised |-> TRUE, img |-> None]
        ELSE [raised |-> FALSE,
              img |-> [data |-> data, fill_color |-> fill_color,
                       back_color |-> "white", width |-> side, height |-> side]]

generate_qr_image(data, fill_color, box_size, border) ==
    LET version == best_fit(StrLen(data), 1)
        side == (ModulesCount(version) + 2 * border) * box_size
    IN  IF version > Len(BIT_LIMIT_M)
        THEN [raised |-> TRUE, img |-> None]     \* DataOverflowError
        ELSE [raised |-> FALSE,
              img |-> [data |-> data, fill_color |-> fill_color,
                       back_color |-> "white", width |-> side, height |-> side]]

-----------------------------------------------------------------------------
(* Resize and export: display_qr_and_download and image_to_bytes.          *)

SizeOptions == {200, 300, 400, 500, 600}
DefaultSize == 400

\* Variant of Resize: scales to the requested width and keeps the height.
ResizeWidthOnly(img, w, h) == [img EXCEPT !.width = w]

\* Image.resize((w, h), Image.NEAREST): the same symbol on a w x h raster.
Resize(img, w, h) == [img EXCEPT !.width = w, !.height = h]

\* img.save(buf, format="PNG"): a PNG stream whose header carries the raster's
\* dimensions and whose body carries its pixels.
image_to_bytes(img) ==
    [format |-> "PNG", width |-> img.width, height |-> img.height,
     data |-> img.data, fill_color |-> img.fill_color]

\* The slider's value qr_size is the state of the widget keyed slider_key.
display_qr_and_download(img, download_filename, qr_size) ==
    << Ev("slider", qr_size),
       Ev("image", [img |-> img, width |-> IF qr_size < 600 THEN qr_size ELSE 600]),
       Ev("caption", <<qr_size, qr_size>>),
       Ev("download", [data |-> image_to_bytes(Resize(img, qr_size, qr_size)),
                       file_name |-> download_filename,
                       mime |-> "image/png"]) >>

-----------------------------------------------------------------------------
(* shorten_url.  The provider's answer is the environment's choice: the    *)
(* text svc.short returns, or an exception.                                *)

service_map == {"TinyURL", "Is.gd", "Da.gd", "Clck.ru"}

ServiceOptions == <<"Is.gd", "Da.gd", "Clck.ru">>

Returns(text) == [kind |-> "return", text |-> text]
Raises == [kind |-> "raise", text |-> None]

\* The provider call svc.short(url) and, when the provider raises, the
\* exception it raises.
SvcShort(url, service_name) == Ev("svc.short", [url |-> url, service |-> service_name])
SvcRaised == Ev("svc.raised", "ShorteningErrorException")

\* Variant of shorten_url: the provider call is outside the try block.
shorten_url_no_catch(url, service_name, outcome) ==
    IF service_name \notin service_map
    THEN [result |-> None, trace |-> <<>>, raised |-> FALSE]
    ELSE IF outcome.kind = "return"
         THEN [result |-> outcome.text, trace |-> <<SvcShort(url, service_name)>>,
               raised |-> FALSE]
         ELSE [result |-> None, trace |-> <<SvcShort(url, service_name), SvcRaised>>,
               raised |-> TRUE]

\* Variant of shorten_url: an unknown name falls back to the first provider.
shorten_url_default_provider(url, service_name, outcome) ==
    IF outcome.kind = "return"
    THEN [result |-> outcome.text, trace |-> <<SvcShort(url, service_name)>>,
          raised |-> FALSE]
    ELSE [result |-> None,
          trace |-> <<SvcShort(url, service_name), SvcRaised, Ev("error", "shorten")>>,
          raised |-> FALSE]

\* Variant of shorten_url: a failed provider call is tried once more.
shorten_url_retry(url, service_name, outcome) ==
    IF service_name \notin service_map
    THEN [result |-> None, trace |-> <<>>, raised |-> FALSE]
    ELSE IF outcome.kind = "return"
         THEN [result |-> outcome.text, trace |-> <<SvcShort(url, service_name)>>,
               raised |-> FALSE]
         ELSE [result |-> None,
               trace |-> <<SvcShort(url, service_name), SvcRaised,
                           SvcShort(url, service_name), SvcRaised,
                           Ev("error", "shorten")>>,
               raised |-> FALSE]

\* The result, what the call did, and whether an exception left the function
\* (it never does: the provider call sits in try/except Exception).
shorten_url(url, service_name, outcome) ==
    IF service_name \notin service_map
    THEN [result |-> None, trace |-> <<>>, raised |-> FALSE]
    ELSE IF outcome.kind = "return"
         THEN [result |-> outcome.text, trace |-> <<SvcShort(url, service_name)>>,
               raised |-> FALSE]
         ELSE [result |-> None,
               trace |-> <<SvcShort(url, service_name), SvcRaised, Ev("error", "shorten")>>,
               raised |-> FALSE]

-----------------------------------------------------------------------------
(* The script body below the widgets: the submit handler and the result    *)
(* display.                                                                *)

color_options ==
    [label \in {"black", "navy", "green", "blue", "pink", "red"} |->
        CASE label = "black" -> "#000000"
          [] label = "navy"  -> "#1e3a5f"
          [] label = "green" -> "#15803d"
          [] label = "blue"  -> "#1d4ed8"
          [] label = "pink"  -> "#db2777"
          [] label = "red"   -> "#dc2626"]

ColorLabels == <<"black", "navy", "green", "blue", "pink", "red">>

\* Variant of Button: the handler runs in every script run.
ButtonAlways(click) == TRUE

\* st.button returns True only in the run its click triggered.
Button(click) == click

\* Variant of Validate: only the empty input is rejected.
ValidateEmptyOnly(url) == IF ~Truthy(url) THEN "empty" ELSE "ok"

\* The two validation branches: which warning, if any, the input earns.
Validate(url) ==
    IF ~Truthy(url) THEN "empty"
    ELSE IF ~(StartsWith(url, HTTP) \/ StartsWith(url, HTTPS)) THEN "scheme"
    ELSE "ok"

\* Variant of CacheWrite: a stale short URL is never cleared.
CacheWriteNoClear(ss, qr_img, target_url, short_url) ==
    [k \in DOMAIN ss \cup {"url_qr_img", "url_target"}
           \cup (IF Truthy(short_url) THEN {"url_short"} ELSE {}) |->
        CASE k = "url_qr_img" -> qr_img
          [] k = "url_target" -> target_url
          [] k = "url_short"  -> IF Truthy(short_url) THEN short_url ELSE ss[k]]

\* Variant of CacheWrite: the target is stored as the short URL every time.
CacheWriteAlwaysShort(ss, qr_img, target_url, short_url) ==
    [k \in {"url_qr_img", "url_target", "url_short"} |->
        CASE k = "url_qr_img" -> qr_img
          [] k = "url_target" -> target_url
          [] k = "url_short"  -> target_url]

\* Variant of CacheWrite: a target URL already cached is kept.
CacheWriteKeepsTarget(ss, qr_img, target_url, short_url) ==
    [k \in IF Truthy(short_url)
           THEN DOMAIN ss \cup {"url_qr_img", "url_target", "url_short"}
           ELSE (DOMAIN ss \cup {"url_qr_img", "url_target"}) \ {"url_short"} |->
        CASE k = "url_qr_img" -> qr_img
          [] k = "url_target" -> IF k \in DOMAIN ss THEN ss[k] ELSE target_url
          [] k = "url_short"  -> short_url]

\* Variant of CacheWrite: the short URL is stored only next to an image
\* that was already cached.
CacheWriteShortNeedsImage(ss, qr_img, target_url, short_url) ==
    [k \in IF Truthy(short_url) /\ "url_qr_img" \in DOMAIN ss
           THEN DOMAIN ss \cup {"url_qr_img", "url_target", "url_short"}
           ELSE (DOMAIN ss \cup {"url_qr_img", "url_target"}) \ {"url_short"} |->
        CASE k = "url_qr_img" -> qr_img
          [] k = "url_target" -> target_url
          [] k = "url_short"  -> short_url]

\* The cache write after a successful encode.
CacheWrite(ss, qr_img, target_url, short_url) ==
    LET keys == IF Truthy(short_url)
                THEN DOMAIN ss \cup {"url_qr_img", "url_target", "url_short"}
                ELSE (DOMAIN ss \cup {"url_qr_img", "url_target"}) \ {"url_short"}
    IN  [k \in keys |->
            CASE k = "url_qr_img" -> qr_img
              [] k = "url_target" -> target_url
              [] k = "url_short"  -> short_url]

\* What a script run hands on: the session state, the record of what it did,
\* whether an exception ended it, whether it wrote the cache and whether the
\* shortener gave it a short URL.
Outcome(ss, t, raised, wrote, short) ==
    [ss |-> ss, trace |-> t, raised |-> raised, wrote |-> wrote, short |-> short]

\* The call of the adapter and what it handed back; sh is what shorten_url
\* returned.  No result comes back when an exception leaves the adapter.
ShortenCall(w, sh) ==
    [sh EXCEPT !.trace = <<Ev("shorten", [url |-> w.url_input, service |-> w.service])>>
                         \o @
                         \o (IF sh.raised THEN <<>> ELSE <<Ev("shortened", sh.result)>>)]

\* Variant of ShortenStep: the adapter is called whatever the checkbox says.
ShortenStepAlways(w, outcome) ==
    ShortenCall(w, shorten_url(w.url_input, w.service, outcome))

\* The optional shortening step: st.spinner around shorten_url(url_input, service).
ShortenStep(w, outcome) ==
    IF w.use_shortener
    THEN ShortenCall(w, shorten_url(w.url_input, w.service, outcome))
    ELSE [result |-> None, trace |-> <<>>, raised |-> FALSE]

\* short_url after the shortening step: the result when it is truthy.
ShortUrlOf(w, sh) == IF w.use_shortener /\ Truthy(sh.result) THEN sh.result ELSE None

\* Variant of TargetUrlOf: the input is encoded even after shortening.
TargetUrlOfInput(w, short_url) == w.url_input

\* target_url: the short URL when there is one, else the input.
TargetUrlOf(w, short_url) == IF Truthy(short_url) THEN short_url ELSE w.url_input

\* After generate_qr_image returned or raised: the cache write, or the end of
\* the run by the uncaught exception.
AfterEncode(ss, sh, short_url, target_url, fill, enc) ==
    IF enc.raised
    THEN Outcome(ss,
                 sh.trace \o <<Ev("encode", [data |-> target_url, fill_color |-> fill]),
                               Ev("exception", "DataOverflowError")>>,
                 TRUE, FALSE, FALSE)
    ELSE Outcome(CacheWrite(ss, enc.img, target_url, short_url),
                 sh.trace \o <<Ev("encode", [data |-> target_url, fill_color |-> fill]),
                               Ev("encoded", enc.img),
                               Ev("write", target_url)>>,
                 FALSE, TRUE, Truthy(sh.result))

EncodeStep(ss, w, sh, short_url, target_url) ==
    AfterEncode(ss, sh, short_url, target_url, color_options[w.qr_color],
                generate_qr_image(target_url, color_options[w.qr_color],
                                  DefaultBoxSize, DefaultBorder))

ResolveStep(ss, w, sh, short_url) ==
    EncodeStep(ss, w, sh, short_url, TargetUrlOf(w, short_url))

\* Variant of Pipeline: a failed shortening ends the submit.
PipelineAbortOnFailure(ss, w, sh) ==
    IF w.use_shortener /\ ~Truthy(sh.result)
    THEN Outcome(ss, sh.trace, FALSE, FALSE, FALSE)
    ELSE ResolveStep(ss, w, sh, ShortUrlOf(w, sh))

\* Shortening resolved, the rest of the accepted submit.  An exception that
\* left shorten_url would end the run at line 308.
Pipeline(ss, w, sh) ==
    IF sh.raised
    THEN Outcome(ss, sh.trace \o <<Ev("exception", "ShorteningErrorException")>>,
                 TRUE, FALSE, FALSE)
    ELSE ResolveStep(ss, w, sh, ShortUrlOf(w, sh))

\* Variant of SubmitHandler: a rejected input also clears the cached result.
SubmitHandlerClearsOnReject(ss, w, outcome) ==
    IF Validate(w.url_input) # "ok"
    THEN Outcome(<<>>, <<Ev("warning", Validate(w.url_input))>>, FALSE, FALSE, FALSE)
    ELSE Pipeline(ss, w, ShortenStep(w, outcome))

\* The body of `if st.button(...)`: validate, shorten, encode, cache.
\* w holds the widgets' values in this run.
SubmitHandler(ss, w, outcome) ==
    IF Validate(w.url_input) # "ok"
    THEN Outcome(ss, <<Ev("warning", Validate(w.url_input))>>, FALSE, FALSE, FALSE)
    ELSE Pipeline(ss, w, ShortenStep(w, outcome))

\* The result display, read from the session state only.
ResultDisplay(ss, qr_size) ==
    IF "url_qr_img" \in DOMAIN ss
    THEN (IF "url_short" \in DOMAIN ss
          THEN <<Ev("success", ss["url_short"]), Ev("code", ss["url_short"])>>
          ELSE <<>>)
         \o <<Ev("divider", "")>>
         \o display_qr_and_download(ss["url_qr_img"], "qrcode_url.png", qr_size)
    ELSE <<>>

\* An exception that leaves the submit handler ends the run: nothing below it
\* is executed.
Finish(w, h) ==
    [ss |-> h.ss,
     trace |-> IF h.raised THEN h.trace ELSE h.trace \o ResultDisplay(h.ss, w.size),
     wrote |-> h.wrote,
     requested |-> w.use_shortener,
     succeeded |-> h.short]

\* One run of the script from the button to the footer.
Script(ss, w, click, outcome) ==
    Finish(w, IF Button(click)
              THEN SubmitHandler(ss, w, outcome)
              ELSE Outcome(ss, <<>>, FALSE, FALSE, FALSE))

-----------------------------------------------------------------------------
(* What the user types and what the provider answers.                      *)

\* The longest byte-mode payload a version 40 symbol holds at level M.
ByteCapacity == (BIT_LIMIT_M[Len(BIT_LIMIT_M)] - 4 - ByteLengthBits(Len(BIT_LIMIT_M))) \div 8

InputUrls ==
    { Str(<<>>, 0),                                         \* ""
      Str(<<"a", ".", "b">>, 0),                            \* "a.b"
      Str(<<"h", "t", "t", "p", ":", "/", "a">>, 0),        \* "http:/a"
      Str(HTTP \o <<"a">>, 0),                              \* "http://a"
      Str(HTTPS, 0),                                        \* "https://"
      Str(HTTPS \o <<"b">>, 90),                            \* 99 characters
      Str(HTTP \o <<"c">>, 292),                            \* 300 characters
      Str(HTTPS, ByteCapacity - Len(HTTPS)),                \* exactly the capacity
      Str(HTTPS, ByteCapacity - Len(HTTPS) + 1) }           \* one byte beyond it

ShortUrls == { Str(HTTPS \o <<"i", "s", ".", "g", "d", "/">>, k) : k \in 1..NumShortUrls }

ProviderOutcomes == {Raises, Returns(Str(<<>>, 0))} \cup {Returns(s) : s \in ShortUrls}

Colors == {ColorLabels[i] : i \in 1..(IF NumColors < Len(ColorLabels) THEN NumColors
                                      ELSE Len(ColorLabels))}

-----------------------------------------------------------------------------
(* The state machine: the page load, then one action per interaction.      *)

Init ==
    /\ session_state = <<>>
    /\ url_input = Str(<<>>, 0)
    /\ qr_color = ColorLabels[1]
    /\ use_shortener = FALSE
    /\ shortener_service = ServiceOptions[1]
    /\ url_qr_size = DefaultSize
    /\ clicked = FALSE
    /\ trace = <<>>
    /\ gen = [requested |-> FALSE, succeeded |-> FALSE]
    /\ prior_keys = {}
    /\ repeated = FALSE

\* The widgets' values as the script reads them.
Widgets == [url_input |-> url_input, qr_color |-> qr_color,
            use_shortener |-> use_shortener, service |-> shortener_service,
            size |-> url_qr_size]

\* The provider's answer as the run recorded in t received it, if it asked.
AnswerOf(t) == IF "shortened" \in Ops(t) THEN <<ArgOf(t, "shortened")>> ELSE <<>>

\* A script run with widget values w.  The state of a widget the run does not
\* render (the provider selector, the size slider) is dropped by the
\* framework, so the widget shows its default when it is rendered again.
Rerun(w, click, outcome) ==
    \E r \in {Script(session_state, w, click, outcome)} :
        /\ session_state' = r.ss
        /\ trace' = r.trace
        /\ clicked' = click
        /\ url_input' = w.url_input
        /\ qr_color' = w.qr_color
        /\ use_shortener' = w.use_shortener
        /\ shortener_service' = IF w.use_shortener THEN w.service ELSE ServiceOptions[1]
        /\ url_qr_size' = IF "slider" \in Ops(r.trace) THEN w.size ELSE DefaultSize
        /\ gen' = IF r.wrote
                  THEN [requested |-> r.requested, succeeded |-> r.succeeded]
                  ELSE gen
        /\ prior_keys' = DOMAIN session_state
        /\ repeated' = (click /\ clicked /\ w = Widgets /\ AnswerOf(r.trace) = AnswerOf(trace))

EditUrl ==
    \E u \in InputUrls \ {url_input} :
        Rerun([Widgets EXCEPT !.url_input = u], FALSE, Raises)

SelectColor ==
    \E c \in Colors \ {qr_color} :
        Rerun([Widgets EXCEPT !.qr_color = c], FALSE, Raises)

ToggleShortener ==
    Rerun([Widgets EXCEPT !.use_shortener = ~use_shortener], FALSE, Raises)

SelectService ==
    /\ use_shortener
    /\ \E i \in 1..Len(ServiceOptions) :
        /\ ServiceOptions[i] # shortener_service
        /\ Rerun([Widgets EXCEPT !.service = ServiceOptions[i]], FALSE, Raises)

MoveSlider ==
    /\ "slider" \in Ops(trace)
    /\ \E size \in SizeOptions \ {url_qr_size} :
        Rerun([Widgets EXCEPT !.size = size], FALSE, Raises)

ClickDownload ==
    /\ "download" \in Ops(trace)
    /\ Rerun(Widgets, FALSE, Raises)

Submit ==
    \E outcome \in ProviderOutcomes :
        Rerun(Widgets, TRUE, outcome)

Next ==
    \/ EditUrl
    \/ SelectColor
    \/ ToggleShortener
    \/ SelectService
    \/ MoveSlider
    \/ ClickDownload
    \/ Submit

Spec == Init /\ [][Next]_vars

-----------------------------------------------------------------------------
(* The adapter on its own: shorten_url called with any provider name, the  *)
(* known ones and names that are no key of service_map.                    *)

ServiceNames == service_map \cup {"Bit.ly", "is.gd", ""}

CallShorten ==
    \E url \in InputUrls, name \in ServiceNames, outcome \in ProviderOutcomes :
        /\ url_input' = url
        /\ shortener_service' = name
        /\ trace' = ShortenCall([url_input |-> url, service |-> name],
                                shorten_url(url, name, outcome)).trace
        /\ UNCHANGED <<session_state, qr_color, use_shortener, url_qr_size, clicked,
                       gen, prior_keys, repeated>>

SpecAdapter == Init /\ [][CallShorten]_vars

-----------------------------------------------------------------------------
(* Vocabulary of the properties, stated on the record of the last run.     *)

\* The operation op appears in the last run.
Did(op) == op \in Ops(trace)

Cached(key) == key \in DOMAIN session_state

\* An input the validation must let through: non-empty and beginning with
\* "http://" or "https://".
WellFormed(url) == StrLen(url) > 0 /\ (StartsWith(url, HTTP) \/ StartsWith(url, HTTPS))

\* Neither the shortener nor the encoder was invoked in the run recorded in t.
NoCalls(t) == Ops(t) \cap {"shorten", "svc.short", "encode"} = {}

\* The last run was a submit of a well-formed input.
AcceptedSubmit == clicked /\ WellFormed(url_input)

\* The adapter was called in the last run and returned Failure (None).
ShortenFailed == Did("shortened") /\ ArgOf(trace, "shortened") = None

\* The adapter was called in the last run and returned a short URL.
ShortenSucceeded ==
    /\ Did("shortened")
    /\ ArgOf(trace, "shortened") # None
    /\ StrLen(ArgOf(trace, "shortened")) > 0

-----------------------------------------------------------------------------
\* C1: a submit whose input is empty or lacks the http(s):// prefix shows a
\* warning, leaves the session state exactly as it was and invokes neither
\* the shortener nor the encoder.
C1_RejectedSubmitMutatesNothing ==
    [][(clicked' /\ ~WellFormed(url_input'))
         => /\ Ops(trace') \cap {"warning"} # {}
            /\ session_state' = session_state
            /\ NoCalls(trace')]_vars

\* A rejected submit (input without scheme) made while an image and a short
\* URL were cached.
C1_Witness ==
    /\ clicked
    /\ StrLen(url_input) > 0
    /\ ~WellFormed(url_input)
    /\ Did("warning")
    /\ prior_keys = {"url_qr_img", "url_target", "url_short"}

\* C2 as stated: after any accepted submit with shortening disabled no short
\* URL is cached or shown.
C2_Original ==
    (AcceptedSubmit /\ ~use_shortener)
        => (~Cached("url_short") /\ ~Did("success"))

\* C2 amended: after an accepted submit with shortening disabled whose
\* encoding did not raise, no short URL is cached or shown, whatever an
\* earlier submit had cached.
C2_NoStaleShortUrl ==
    (AcceptedSubmit /\ ~use_shortener /\ ~Did("exception"))
        => (~Cached("url_short") /\ ~Did("success"))

\* An accepted submit without shortening, completed while an earlier short
\* URL was cached.
C2_Witness ==
    /\ AcceptedSubmit
    /\ ~use_shortener
    /\ Did("write")
    /\ "url_short" \in prior_keys

\* C3 as stated: when shortening is enabled and the adapter returns Failure,
\* an image is encoded and cached, the payload and the cached target are the
\* input URL, and no short URL is displayed.
C3_Original ==
    (AcceptedSubmit /\ use_shortener /\ ShortenFailed)
        => /\ Did("encoded")
           /\ Cached("url_qr_img")
           /\ ArgOf(trace, "encode").data = url_input
           /\ Cached("url_target")
           /\ session_state["url_target"] = url_input
           /\ ~Did("success")
           /\ ~Cached("url_short")

\* C3 amended: the same, for submits whose encoding did not raise.
C3_FallbackToOriginalUrl ==
    (AcceptedSubmit /\ use_shortener /\ ShortenFailed /\ ~Did("exception"))
        => /\ Did("encoded")
           /\ Cached("url_qr_img")
           /\ ArgOf(trace, "encode").data = url_input
           /\ session_state["url_qr_img"].data = url_input
           /\ Cached("url_target")
           /\ session_state["url_target"] = url_input
           /\ ~Did("success")
           /\ ~Cached("url_short")

\* A failed shortening in a completed submit, with a short URL left over from
\* an earlier submit.
C3_Witness ==
    /\ AcceptedSubmit
    /\ use_shortener
    /\ ShortenFailed
    /\ Did("error")
    /\ Did("write")
    /\ "url_short" \in prior_keys

\* C4: when shortening is enabled and the adapter returns a short URL, that
\* short URL is the encoder's payload, the cached target URL and the short
\* URL displayed.
C4_ShortUrlIsPayloadAndDisplay ==
    (AcceptedSubmit /\ use_shortener /\ ShortenSucceeded)
        => /\ Did("encode")
           /\ ArgOf(trace, "encode").data = ArgOf(trace, "shortened")
           /\ Cached("url_target")
           /\ session_state["url_target"] = ArgOf(trace, "shortened")
           /\ Did("success")
           /\ ArgOf(trace, "success") = ArgOf(trace, "shortened")
           /\ ArgOf(trace, "code") = ArgOf(trace, "shortened")

\* A submit whose shortening succeeded, replacing a different cached target.
C4_Witness ==
    /\ AcceptedSubmit
    /\ use_shortener
    /\ ShortenSucceeded
    /\ Did("write")
    /\ ArgOf(trace, "shortened") # url_input
    /\ "url_target" \in prior_keys

\* C5: a short URL is cached iff shortening was requested and succeeded in
\* the generation that produced the cached image.
C5_ShortUrlIffRequestedAndSucceeded ==
    Cached("url_short") <=> (Cached("url_qr_img") /\ gen.requested /\ gen.succeeded)

\* An image whose generation requested shortening and did not get it, after
\* a generation that had cached a short URL.
C5_Witness ==
    /\ Cached("url_qr_img")
    /\ gen.requested
    /\ ~gen.succeeded
    /\ Did("write")
    /\ "url_short" \in prior_keys

\* C6: the image is cached iff the target URL is, and the cached image is the
\* encoding of the cached target URL (in one of the fill colours).
C6_ImageEncodesTarget ==
    /\ Cached("url_qr_img") <=> Cached("url_target")
    /\ Cached("url_qr_img")
        => /\ session_state["url_qr_img"].data = session_state["url_target"]
           /\ \E label \in DOMAIN color_options :
                /\ ~generate_qr_image(session_state["url_target"], color_options[label],
                                      DefaultBoxSize, DefaultBorder).raised
                /\ session_state["url_qr_img"] =
                     generate_qr_image(session_state["url_target"], color_options[label],
                                       DefaultBoxSize, DefaultBorder).img

\* A second generation has replaced an earlier image and target.
C6_Witness ==
    /\ Cached("url_qr_img")
    /\ Did("write")
    /\ "url_target" \in prior_keys
    /\ session_state["url_target"] # url_input

\* What a run displays agrees with the cached session state.
DisplayedFromCache ==
    /\ Did("image") <=> Cached("url_qr_img")
    /\ Did("download") <=> Cached("url_qr_img")
    /\ Did("image")
        => /\ ArgOf(trace, "image").img = session_state["url_qr_img"]
           /\ ArgOf(trace, "download").data.data = session_state["url_qr_img"].data
           /\ ArgOf(trace, "download").data.fill_color = session_state["url_qr_img"].fill_color
    /\ Did("success") <=> Cached("url_short")
    /\ Did("success") => ArgOf(trace, "success") = session_state["url_short"]

\* C7: a script run that is not a submit invokes neither the shortener nor
\* the encoder, leaves the session state unchanged and displays what the
\* session state caches.
C7_RerunOnlyRenders ==
    [][(~clicked')
         => /\ NoCalls(trace')
            /\ session_state' = session_state
            /\ DisplayedFromCache']_vars

\* A re-render after the slider moved and the form changed, showing a cached
\* image and short URL that differ from what the form now holds.
C7_Witness ==
    /\ ~clicked
    /\ Did("image")
    /\ Did("success")
    /\ url_qr_size # DefaultSize
    /\ WellFormed(url_input)
    /\ ~use_shortener
    /\ color_options[qr_color] # session_state["url_qr_img"].fill_color

\* C8 as stated: when encoding fails no image is produced, the session state
\* is not overwritten, and the state cached before stays visible.
C8_Original ==
    [][Did("exception")'
         => /\ ~Did("encoded")'
            /\ session_state' = session_state
            /\ Cached("url_qr_img")
                => /\ Did("image")'
                   /\ ArgOf(trace', "image").img = session_state["url_qr_img"]]_vars

\* A raster the encoder may return with the pipeline's box size 10 and border
\* 4: square, non-empty, (moduleCount + 2*4) * 10 pixels for a version 1..40.
ValidRaster(img) ==
    /\ img.width = img.height
    /\ img.width > 0
    /\ \E version \in 1..40 : img.width = ((17 + 4 * version) + 2 * 4) * 10

\* C9 as stated: encoding succeeds for every payload that passes validation.
C9_Original ==
    \A i \in 1..Len(trace) :
        (trace[i].op = "encode" /\ WellFormed(trace[i].arg.data))
            => /\ i < Len(trace)
               /\ trace[i + 1].op = "encoded"
               /\ ValidRaster(trace[i + 1].arg)

\* C9 amended: encoding succeeds, with a valid raster, for every payload that
\* passes validation and is at most 2331 bytes long.
C9_EncodeWithinCapacity ==
    \A i \in 1..Len(trace) :
        (trace[i].op = "encode" /\ WellFormed(trace[i].arg.data)
                                /\ StrLen(trace[i].arg.data) <= 2331)
            => /\ i < Len(trace)
               /\ trace[i + 1].op = "encoded"
               /\ ValidRaster(trace[i + 1].arg)
               /\ trace[i + 1].arg.data = trace[i].arg.data

\* The longest payload that fits was encoded, into the largest symbol.
C9_Witness ==
    /\ Did("encoded")
    /\ StrLen(ArgOf(trace, "encode").data) = 2331
    /\ ArgOf(trace, "encoded").width = 1850

\* C10: the PNG offered for download is S x S pixels for the selected size S,
\* whatever the native size of the cached image.
C10_DownloadIsSxS ==
    Did("download")
        => /\ url_qr_size \in {200, 300, 400, 500, 600}
           /\ ArgOf(trace, "slider") = url_qr_size
           /\ ArgOf(trace, "download").data.format = "PNG"
           /\ ArgOf(trace, "download").data.width = url_qr_size
           /\ ArgOf(trace, "download").data.height = url_qr_size

\* The largest native image offered at the smallest size.
C10_Witness ==
    /\ Did("download")
    /\ url_qr_size = 200
    /\ session_state["url_qr_img"].width = 1850

-----------------------------------------------------------------------------
\* How often op appears in t, and where it appears first.
CountOf(t, op) == Cardinality({i \in 1..Len(t) : t[i].op = op})

IndexOf(t, op) == CHOOSE i \in 1..Len(t) : t[i].op = op /\ \A j \in 1..(i - 1) : t[j].op # op

\* The PNG a run offers for download, if it offers one.
PngOf(t) == IF "download" \in Ops(t) THEN <<ArgOf(t, "download").data>> ELSE <<>>

\* C11: a submit that repeats the submit before it, with the same inputs and
\* the same provider answer, leaves the cached session state as the first
\* left it and offers the same PNG, whatever the state before the first.
C11_SubmitIdempotent ==
    [][(clicked /\ clicked' /\ Widgets' = Widgets /\ AnswerOf(trace') = AnswerOf(trace))
         => /\ session_state' = session_state
            /\ PngOf(trace') = PngOf(trace)]_vars

\* The second of two identical submits with a fixed short URL, the first of
\* which started from an empty session.
C11_Witness ==
    /\ repeated
    /\ use_shortener
    /\ ShortenSucceeded
    /\ Did("download")
    /\ Cached("url_short")

\* C12: an exception of the provider call never leaves shorten_url: it is
\* turned into the result None with an error message, and the submit goes on
\* to the encoder after every shortening attempt.
C12_ShortenNeverPropagates ==
    Did("svc.short")
        => /\ \A i \in 1..Len(trace) : trace[i] # Ev("exception", "ShorteningErrorException")
           /\ Did("shortened")
           /\ Did("encode")
           /\ IndexOf(trace, "shortened") < IndexOf(trace, "encode")
           /\ Did("svc.raised")
                => /\ ArgOf(trace, "shortened") = None
                   /\ Did("error")
                   /\ IndexOf(trace, "svc.raised") < IndexOf(trace, "error")

\* The provider raised and the submit still produced an image.
C12_Witness ==
    /\ Did("svc.raised")
    /\ Did("error")
    /\ Did("encoded")
    /\ Did("image")

\* C13: called with a name that is none of the known providers, shorten_url
\* returns None at once: no provider call, nothing else done.
C13_UnknownProviderNoCall ==
    (Did("shorten") /\ shortener_service \notin {"TinyURL", "Is.gd", "Da.gd", "Clck.ru"})
        => /\ ~Did("svc.short")
           /\ Len(trace) = 2
           /\ trace[2].op = "shortened"
           /\ trace[2].arg = None

\* The adapter was called with the unknown name "Bit.ly".
C13_Witness ==
    /\ shortener_service = "Bit.ly"
    /\ Did("shorten")
    /\ Did("shortened")
    /\ StrLen(url_input) > 0

\* The order of the steps within the last run.
RunOrder ==
    /\ (clicked /\ ~WellFormed(url_input))
        => /\ trace[1].op = "warning"
           /\ NoCalls(trace)
           /\ ~Did("write")
    /\ (clicked /\ ~use_shortener) => (~Did("shorten") /\ ~Did("svc.short"))
    /\ AcceptedSubmit
        => /\ CountOf(trace, "encode") = 1
           /\ use_shortener
                => /\ CountOf(trace, "shorten") = 1
                   /\ Did("shortened")
                   /\ IndexOf(trace, "shorten") < IndexOf(trace, "shortened")
                   /\ IndexOf(trace, "shortened") < IndexOf(trace, "encode")
                   /\ Did("svc.short") => /\ IndexOf(trace, "shorten") < IndexOf(trace, "svc.short")
                                          /\ IndexOf(trace, "svc.short") < IndexOf(trace, "shortened")
    /\ Did("write")
        => /\ AcceptedSubmit
           /\ Did("encoded")
           /\ IndexOf(trace, "encode") < IndexOf(trace, "encoded")
           /\ IndexOf(trace, "encoded") < IndexOf(trace, "write")
    /\ \A i, j \in 1..Len(trace) :
        (/\ trace[i].op \in {"success", "code", "divider", "slider", "image", "caption", "download"}
         /\ trace[j].op \in {"warning", "shorten", "svc.short", "shortened", "encode",
                             "encoded", "write"})
            => j < i

\* C14: within a submit the steps run in the order validate, shorten (only
\* when enabled), encode, cache write, render; the session state changes only
\* in a run that wrote the cache after the encoder returned an image.
C14_StepOrder ==
    [][RunOrder' /\ (session_state' # session_state => Did("write")')]_vars

\* A submit that went through every step: shortened, encoded, cached, rendered.
C14_Witness ==
    /\ AcceptedSubmit
    /\ use_shortener
    /\ Did("svc.short")
    /\ ShortenSucceeded
    /\ Did("write")
    /\ Did("success")
    /\ Did("download")

\* C15 as stated: whenever shorten_url yields no short URL in a submit, an
\* error message was shown before the pipeline went on to encode.
C15_Original ==
    (AcceptedSubmit /\ Did("shortened") /\ ~ShortenSucceeded)
        => /\ Did("error")
           /\ IndexOf(trace, "error") < IndexOf(trace, "encode")

\* C16: a submit makes at most one provider call, only when it is an
\* accepted submit with shortening enabled; a failed call is not repeated,
\* neither in that run nor by a later run that is not a submit.
C16_NoRetry ==
    /\ CountOf(trace, "svc.short") <= 1
    /\ CountOf(trace, "shorten") <= 1
    /\ Did("svc.short") => (AcceptedSubmit /\ use_shortener)
    /\ ~clicked => (~Did("svc.short") /\ ~Did("shorten"))

\* A submit whose single provider call failed.
C16_Witness ==
    /\ AcceptedSubmit
    /\ Did("svc.raised")
    /\ CountOf(trace, "svc.short") = 1
    /\ CountOf(trace, "svc.raised") = 1

\* C17: whenever a short URL is cached, it is the cached target URL and the
\* payload of the cached image, so the short URL shown is what the image
\* shown with it encodes.
C17_ShortUrlIsTarget ==
    Cached("url_short")
        => /\ Cached("url_target")
           /\ Cached("url_qr_img")
           /\ session_state["url_target"] = session_state["url_short"]
           /\ session_state["url_qr_img"].data = session_state["url_short"]
           /\ (Did("success") /\ Did("image"))
                => ArgOf(trace, "image").img.data = ArgOf(trace, "success")

\* A short URL shown next to its image while the form holds another URL.
C17_Witness ==
    /\ Cached("url_short")
    /\ Did("success")
    /\ Did("image")
    /\ ~clicked
    /\ WellFormed(url_input)
    /\ url_input # session_state["url_short"]

\* C18: once an image is cached it stays cached through every later run, and
\* every run that completes displays an image with its download control.
C18_ImageStaysCached ==
    [][Cached("url_qr_img")
         => /\ Cached("url_qr_img")'
            /\ ~Did("exception")' => (Did("image")' /\ Did("download")')]_vars

\* A rejected submit made while an image was cached, which still shows it.
C18_Witness ==
    /\ clicked
    /\ ~WellFormed(url_input)
    /\ "url_qr_img" \in prior_keys
    /\ Cached("url_qr_img")
    /\ Did("warning")
    /\ Did("image")
    /\ Did("download")

====
